---- MODULE Spec2Model ----
(***************************************************************************)
(* State-machine model of the InfiniteSlider React component               *)
(* (src/src/InfiniteSlider.tsx).                                           *)
(*                                                                         *)
(* The component is a function of its props and three useState cells; it   *)
(* is driven by React (render/commit, then the passive effects whose       *)
(* dependencies changed) and by host callbacks: the IntersectionObserver   *)
(* callback, timers, image load/error events, resize events and animation  *)
(* frames.  An absent optional string (id, logo, text) is modelled as ""   *)
(* -- JavaScript treats both as falsy in every test the component makes.   *)
(***************************************************************************)
EXTENDS Integers, Sequences, FiniteSets, Bags, TLC

\* ------------------------------------------------------------------ bounds
MaxLen == 2            \* longest items sequence handed to the component
MaxEnv == 1            \* prop changes and resize events over one lifetime
MaxEntries == 2        \* entries carried by one IntersectionObserver callback
MaxScale == 1          \* viewport scale factors 0 (no layout) .. MaxScale
MaxResizes == 2        \* resize events and items changes in the geometry model
Sub == 10              \* layout resolution: Sub sub-pixel units per CSS pixel

\* ------------------------------------------------------- program constants
duration == 30         \* default of the duration prop
speed == 1             \* default of the speed prop
baseWidth == 5000      \* default of the baseWidth prop
SuspiciousWidth == 100 \* below this the measured width is recomputed
LogoWidth == 552       \* rendered width of an <img> / placeholder (host layout)
TextWidth == 50        \* rendered width of a text span (host layout)
ComputedGapPx == 48    \* used value of the default gap "3rem" at 16px
DefaultGapPx == 48     \* last resort of the gapPx chain

\* The gap prop: a number (pixels) or a CSS length string.  `used` is the
\* length the inline style gap: gapValue resolves to, in sub-pixel units
\* (gapValue = typeof gap === "number" ? `${gap}px` : gap).
GapRem  == [number |-> FALSE, used |-> ComputedGapPx * Sub]  \* "3rem" (default)
Gap24   == [number |-> TRUE,  used |-> 24 * Sub]             \* 24
GapFine == [number |-> TRUE,  used |-> 2]                    \* a fraction of a pixel
Gaps == { GapRem, Gap24, GapFine }

\* duration, speed, baseWidth and gap as handed by the parent.
DefaultConfig ==
  [ duration |-> duration, speed |-> speed, baseWidth |-> baseWidth, gap |-> GapRem ]
Configs ==
  [ duration : {duration, 2 * duration}, speed : {speed, 2 * speed},
    baseWidth : {baseWidth}, gap : Gaps ]

RootMargins == {"50px", "0px"}

\* ------------------------------------------------------------------- items
\* SliderItem: id, logo, text ("" = not provided).
LogoA   == [id |-> "",  logo |-> "u1", text |-> "A"]   \* logo and text
LogoB   == [id |-> "x", logo |-> "u2", text |-> ""]    \* explicit id, logo only
TextB   == [id |-> "",  logo |-> "",   text |-> "B"]   \* text only
Missing == [id |-> "",  logo |-> "",   text |-> ""]    \* neither logo nor text

ItemPool == { LogoA, LogoB, TextB, Missing }
Urls == { "u1", "u2" }

\* Every sequence of at most MaxLen items of the pool.
AllSequences == UNION { [1..n -> ItemPool] : n \in 0..MaxLen }

\* The items values handed to a mounted component in the lifecycle model:
\* empty, text only, one logo used twice, two distinct logos, and a sequence
\* with an item missing both logo and text.
ItemSequences ==
  { << >>, << TextB >>, << LogoA, LogoA >>, << LogoA, LogoB >>, << LogoA, Missing >> }

\* The items values of the geometry model: one narrow text item, and two
\* logo-only items.
GeometrySequences == { << TextB >>, << LogoB, LogoB >> }

\* items.filter((item) => !item.logo && !item.text)
invalidItems(its) == { i \in 1..Len(its) : its[i].logo = "" /\ its[i].text = "" }

\* Array.from(new Set(items.map((item) => item.logo).filter(Boolean)))
imageUrls(its) == { its[i].logo : i \in 1..Len(its) } \ {""}

\* const itemKey = item.id || `${i}-${copyIndex}`
itemKeyNoCopy(item, i, copyIndex) ==
  IF item.id # "" THEN item.id ELSE ToString(i)

itemKey(item, i, copyIndex) ==
  IF item.id # "" THEN item.id ELSE ToString(i) \o "-" \o ToString(copyIndex)

\* One rendered child of the track: items.map((item, i) => <div key=...>...)
RenderItem(item, i, copyIndex, sl) ==
  [ key         |-> itemKey(item, i, copyIndex),
    item        |-> item,
    index       |-> i,
    img         |-> sl /\ item.logo # "",
    placeholder |-> ~sl /\ item.logo # "",
    span        |-> item.text # "" ]

\* A buggy buffer: the second copy laid out in reverse order.
RenderBufferReversed(its, sl) ==
  [ k \in 1..(2 * Len(its)) |->
      IF k <= Len(its)
        THEN RenderItem(its[k], k - 1, 0, sl)
        ELSE RenderItem(its[2 * Len(its) - k + 1], 2 * Len(its) - k, 1, sl) ]

\* Array.from({ length: 2 }).map((_, copyIndex) => items.map(...)):
\* the children of the track, copy 0 then copy 1 (i is 0-based as in the code).
RenderBuffer(its, sl) ==
  LET copy(copyIndex) == [ j \in 1..Len(its) |-> RenderItem(its[j], j - 1, copyIndex, sl) ]
  IN  copy(0) \o copy(1)


\* ------------------------------------------------------------------- state
VARIABLES
  items,          \* the items prop (current value handed by the parent)
  gen,            \* identity of the items array: a new one per hand-over
  lazyLoad,       \* the lazyLoad prop
  rootMargin,     \* the rootMargin prop
  config,         \* the duration, speed, baseWidth and gap props
  pauseOnHover,   \* the pauseOnHover prop
  itemClassName,  \* the itemClassName prop
  hasWindow,      \* typeof window !== "undefined" in this host
  viewport,       \* host layout scale; 0 = the track has no layout
  gapSupported,   \* the host lays out flex gaps and reports them as computed
  mounted,        \* the component is mounted
  thrown,         \* the validation effect has thrown
  isVisible,      \* useState(false)
  shouldLoad,     \* useState(false)
  imagesLoaded,   \* useState(false)
  needsRender,    \* a prop or state changed since the last render
  effectsPending, \* a render was committed, its passive effects not yet run
  r,              \* props and state captured by the last committed render
  prev,           \* the render whose effects ran last (dependency values)
  track,          \* children of the track element (containerRef.current)
  observing,      \* an IntersectionObserver is observing the root element
  timers,         \* queue of pending setTimeout callbacks [kind, inst]
  frames,         \* number of pending requestAnimationFrame callbacks
  preloads,       \* one record per run of the preload loop (its closure)
  insts,          \* items and config captured by each measurement-effect run
  resizeListener, \* measurement-effect run whose handleResize is registered
  totalWidth,     \* --total-width as << px >>, NoValue when not set
  scrollDuration, \* --scroll-duration in s as <<num, den>>, NoValue when not set
  ready,          \* the container has class infinite-slider-ready
  hist            \* history of the run, read by the properties only

vars == << items, gen, lazyLoad, rootMargin, config, pauseOnHover, itemClassName,
           hasWindow, viewport,
           gapSupported, mounted, thrown, isVisible, shouldLoad, imagesLoaded, needsRender,
           effectsPending, r, prev, track, observing, timers, frames,
           preloads, insts, resizeListener, totalWidth, scrollDuration,
           ready, hist >>

classVars  == << pauseOnHover, itemClassName >>
propVars   == << items, gen, lazyLoad, rootMargin, config, classVars >>
hostVars   == << hasWindow, viewport, gapSupported >>
stateVars  == << isVisible, shouldLoad, imagesLoaded >>
reactVars  == << mounted, thrown, needsRender, effectsPending, r, prev >>
styleVars  == << totalWidth, scrollDuration, ready >>

NoValue == << >>
NoRender == [gen |-> 0]

\* What the last committed render closed over.
Closure ==
  [ gen |-> gen, items |-> items, lazyLoad |-> lazyLoad, rootMargin |-> rootMargin,
    config |-> config, pauseOnHover |-> pauseOnHover,
    shouldLoad |-> shouldLoad, imagesLoaded |-> imagesLoaded ]

GateTimer == [kind |-> "gate", inst |-> 0]
\* setTimeout(f, delay) k times: the callbacks join the queue in call order.
AddTimers(queue, t, k) == queue \o [x \in 1..k |-> t]

\* The delay a callback was scheduled with: 50 ms for the zero-children
\* retry, 100 ms for the gate delay, the settle delay and the resize delay.
Delay(t) == IF t.kind = "retry" THEN 50 ELSE 100

\* The host runs a timer before every timer that was scheduled later with an
\* equal or longer delay; a later timer with a shorter delay may overtake.
Due(queue) ==
  { k \in 1..Len(queue) : \A j \in 1..(k - 1) : Delay(queue[j]) > Delay(queue[k]) }

\* The callback runs: its oldest pending instance leaves the queue.
RemoveTimer(queue, t) ==
  LET k == CHOOSE k \in 1..Len(queue) :
             queue[k] = t /\ \A j \in 1..(k - 1) : queue[j] # t
  IN  SubSeq(queue, 1, k - 1) \o SubSeq(queue, k + 1, Len(queue))

\* Timers the host may run now, and every timer that is pending.
TimerSet == { timers[k] : k \in Due(timers) }
PendingTimers == { timers[k] : k \in 1..Len(timers) }

InitHist ==
  [ renderedGens     |-> {},   \* generations whose buffer was committed
    imgLoads         |-> {},   \* <<gen, url>> of every image load started
    observers        |-> 0,    \* IntersectionObservers created
    observedAfterHit |-> FALSE,\* an observer was installed after an intersection
    intersected      |-> FALSE,\* an intersecting entry was delivered
    gateTimers       |-> 0,    \* delay timers scheduled
    gateFired        |-> 0,    \* delay timers fired (setShouldLoad(true) calls)
    everLazyOff      |-> FALSE,\* the visibility effect ran with lazyLoad false
    everLazyOn       |-> FALSE,\* the visibility effect ran with lazyLoad true
    failed           |-> FALSE,\* some preload image fired error
    published        |-> << >>,\* << config >> of the measurement that published last
    resizes          |-> 0,    \* resize events handled by handleResize
    polls            |-> 0,    \* parity of the retries made while one is pending
    click            |-> << >>,\* the last onItemClick call
    env              |-> MaxEnv ] \* prop changes and resize events still to come

\* The component right after construction: nothing rendered, nothing pending.
InitComponent ==
  /\ mounted = TRUE
  /\ thrown = FALSE
  /\ isVisible = FALSE
  /\ shouldLoad = FALSE
  /\ imagesLoaded = FALSE
  /\ needsRender = TRUE
  /\ effectsPending = FALSE
  /\ r = NoRender
  /\ prev = NoRender
  /\ track = << >>
  /\ observing = FALSE
  /\ timers = << >>
  /\ frames = 0
  /\ preloads = << >>
  /\ insts = << >>
  /\ resizeListener = 0
  /\ totalWidth = NoValue
  /\ scrollDuration = NoValue
  /\ ready = FALSE

InitWith(sequences) ==
  /\ items \in sequences
  /\ gen = 1
  /\ lazyLoad \in BOOLEAN
  /\ rootMargin = "50px"
  /\ pauseOnHover = TRUE
  /\ itemClassName = ""
  /\ config = DefaultConfig
  /\ hasWindow \in BOOLEAN
  /\ viewport \in 0..MaxScale
  /\ gapSupported = TRUE
  /\ hist = InitHist
  /\ InitComponent

Init == InitWith(ItemSequences)

\* ------------------------------------------------------------ props, render
\* The parent hands a new items array (a new identity, any value).
SetItems(its) ==
  /\ mounted /\ hist.env > 0
  /\ items' = its
  /\ gen' = gen + 1
  /\ needsRender' = TRUE
  /\ hist' = [hist EXCEPT !.env = @ - 1]
  /\ UNCHANGED << lazyLoad, rootMargin, config, classVars, hostVars, stateVars, mounted, thrown,
                  effectsPending, r, prev, track, observing, timers, frames,
                  preloads, insts, resizeListener, styleVars >>

SetLazyLoad(b) ==
  /\ mounted /\ hist.env > 0 /\ b # lazyLoad
  /\ lazyLoad' = b
  /\ needsRender' = TRUE
  /\ hist' = [hist EXCEPT !.env = @ - 1]
  /\ UNCHANGED << items, gen, rootMargin, config, classVars, hostVars, stateVars, mounted, thrown,
                  effectsPending, r, prev, track, observing, timers, frames,
                  preloads, insts, resizeListener, styleVars >>

SetRootMargin(m) ==
  /\ mounted /\ hist.env > 0 /\ m # rootMargin
  /\ rootMargin' = m
  /\ needsRender' = TRUE
  /\ hist' = [hist EXCEPT !.env = @ - 1]
  /\ UNCHANGED << items, gen, lazyLoad, config, classVars, hostVars, stateVars, mounted, thrown,
                  effectsPending, r, prev, track, observing, timers, frames,
                  preloads, insts, resizeListener, styleVars >>

\* The parent passes new duration, speed, baseWidth or gap values.
SetConfig(c) ==
  /\ mounted /\ hist.env > 0 /\ c # config
  /\ config' = c
  /\ needsRender' = TRUE
  /\ hist' = [hist EXCEPT !.env = @ - 1]
  /\ UNCHANGED << items, gen, lazyLoad, rootMargin, classVars, hostVars, stateVars,
                  mounted, thrown, effectsPending, r, prev, track, observing,
                  timers, frames, preloads, insts, resizeListener, styleVars >>

SetPauseOnHover(b) ==
  /\ mounted /\ hist.env > 0 /\ b # pauseOnHover
  /\ pauseOnHover' = b
  /\ needsRender' = TRUE
  /\ hist' = [hist EXCEPT !.env = @ - 1]
  /\ UNCHANGED << items, gen, lazyLoad, rootMargin, config, itemClassName, hostVars,
                  stateVars, mounted, thrown, effectsPending, r, prev, track,
                  observing, timers, frames, preloads, insts, resizeListener,
                  styleVars >>

SetItemClassName(c) ==
  /\ mounted /\ hist.env > 0 /\ c # itemClassName
  /\ itemClassName' = c
  /\ needsRender' = TRUE
  /\ hist' = [hist EXCEPT !.env = @ - 1]
  /\ UNCHANGED << items, gen, lazyLoad, rootMargin, config, pauseOnHover, hostVars,
                  stateVars, mounted, thrown, effectsPending, r, prev, track,
                  observing, timers, frames, preloads, insts, resizeListener,
                  styleVars >>

\* className of the track element (the element containerRef points to).
trackClassName(p) ==
  IF p THEN "infinite-slider-track infinite-slider-pause-on-hover"
       ELSE "infinite-slider-track "

\* <img src={item.logo} loading="eager"> elements of a buffer: each starts a load.
RenderedImgLoads(buf, g) ==
  { << g, buf[k].item.logo >> : k \in { j \in 1..Len(buf) : buf[j].img } }

\* The component function runs and React commits its output to the DOM. A
\* className prop that differs from the one of the previous commit is written
\* to the element's class attribute, which replaces every class on it,
\* infinite-slider-ready included; an equal one is left alone.
Render ==
  /\ mounted /\ needsRender /\ ~effectsPending
  /\ r' = Closure
  /\ track' = RenderBuffer(items, shouldLoad)
  /\ needsRender' = FALSE
  /\ effectsPending' = TRUE
  /\ hist' = [hist EXCEPT
       !.renderedGens = @ \cup {gen},
       !.imgLoads = IF hasWindow
                      THEN @ \cup RenderedImgLoads(RenderBuffer(items, shouldLoad), gen)
                      ELSE @ ]
  /\ ready' = IF r # NoRender /\ trackClassName(r.pauseOnHover) # trackClassName(pauseOnHover)
                THEN FALSE ELSE ready
  /\ UNCHANGED << propVars, hostVars, stateVars, mounted, thrown, prev, observing,
                  timers, frames, preloads, insts, resizeListener, totalWidth,
                  scrollDuration >>


\* A buggy handler: the position in the doubled buffer is handed over.
onClickBufferPosition(k) == << track[k].item, k - 1 >>

\* onClick={() => onItemClick?.(item, i)} of child k of the track: the
\* arguments handed to onItemClick.
onClick(k) == << track[k].item, track[k].index >>

\* The user clicks child k of the rendered track (onItemClick is provided).
Click(k) ==
  /\ mounted /\ hasWindow
  /\ k \in 1..Len(track)
  /\ hist' = [hist EXCEPT !.click =
       << [ child |-> k, item |-> onClick(k)[1], index |-> onClick(k)[2],
            rendered |-> r.items ] >>]
  /\ UNCHANGED << propVars, hostVars, stateVars, reactVars, track, observing,
                  timers, frames, preloads, insts, resizeListener, styleVars >>


\* ----------------------------------------------------------------- effects
\* useEffect dependency lists, compared with the render whose effects ran last.
ItemsDepChanged == prev = NoRender \/ prev.gen # r.gen
VisibilityDepsChanged ==
  prev = NoRender \/ prev.lazyLoad # r.lazyLoad \/ prev.rootMargin # r.rootMargin
PreloadDepsChanged ==
  prev = NoRender \/ prev.shouldLoad # r.shouldLoad \/ prev.gen # r.gen
MeasureDepsChanged ==
  \/ prev = NoRender
  \/ prev.shouldLoad # r.shouldLoad
  \/ prev.imagesLoaded # r.imagesLoaded
  \/ prev.gen # r.gen
  \/ prev.config # r.config

\* if (invalidItems.length > 0) { console.error(...); throw new Error(...) }
ValidationThrows == ItemsDepChanged /\ invalidItems(r.items) # {}

\* The visibility effect takes the lazy path: an observer is created.
CreatesObserverNoWindowCheck == r.lazyLoad
CreatesObserver == r.lazyLoad /\ hasWindow

\* A buggy test: the window check is made before the lazyLoad check.
ActivatesDirectlyInBrowser == ~r.lazyLoad /\ hasWindow

\* The visibility effect sets isVisible and shouldLoad itself.
ActivatesDirectly == ~r.lazyLoad

\* Early returns of the preload effect.
PreloadGuardNoGate == hasWindow
PreloadGuard == r.shouldLoad /\ hasWindow

\* Early returns of the measurement effect (containerRef.current is set by
\* the commit that precedes every effect run).
MeasureGuard == r.shouldLoad /\ r.imagesLoaded /\ hasWindow

\* setupAnimation(): the timer it schedules for measurement-effect run i.
setupAnimation(i) ==
  IF Len(track) = 0 THEN [kind |-> "retry", inst |-> i]
                     ELSE [kind |-> "calc", inst |-> i]

\* Visibility effect: cleanup of the previous run, then the body.
VisibilityEffect ==
  IF ~VisibilityDepsChanged
    THEN UNCHANGED << isVisible, shouldLoad, observing >>
    ELSE IF ActivatesDirectly
      THEN /\ isVisible' = TRUE
           /\ shouldLoad' = TRUE
           /\ observing' = FALSE
      ELSE /\ observing' = CreatesObserver
           /\ UNCHANGED << isVisible, shouldLoad >>

\* Preload effect: one img element per distinct logo URL.
PreloadEffect ==
  IF PreloadDepsChanged /\ PreloadGuard
    THEN IF imageUrls(r.items) = {}
      THEN /\ imagesLoaded' = TRUE
           /\ UNCHANGED preloads
      ELSE /\ preloads' = Append(preloads,
                [ gen         |-> r.gen,
                  totalImages |-> Cardinality(imageUrls(r.items)),
                  loadedCount |-> 0,
                  pending     |-> imageUrls(r.items) ])
           /\ UNCHANGED imagesLoaded
    ELSE UNCHANGED << imagesLoaded, preloads >>

\* Measurement effect: cleanup removes the previous resize listener; the body
\* calls setupAnimation() and registers handleResize.
MeasureEffect ==
  IF ~MeasureDepsChanged
    THEN UNCHANGED << insts, resizeListener, timers >>
    ELSE IF MeasureGuard
      THEN /\ insts' = Append(insts, [items |-> r.items, config |-> r.config])
           /\ resizeListener' = Len(insts) + 1
           /\ timers' = AddTimers(timers, setupAnimation(Len(insts) + 1), 1)
      ELSE /\ resizeListener' = 0
           /\ UNCHANGED << insts, timers >>

\* React runs the passive effects of the committed render, in declaration
\* order.  A throwing effect skips the effects after it and unmounts the
\* component (every effect cleanup runs).
FlushEffects ==
  /\ mounted /\ effectsPending
  /\ effectsPending' = FALSE
  /\ prev' = r
  /\ IF ValidationThrows
       THEN /\ thrown' = TRUE
            /\ mounted' = FALSE
            /\ needsRender' = FALSE
            /\ observing' = FALSE
            /\ resizeListener' = 0
            /\ UNCHANGED << stateVars, timers, preloads, insts, hist >>
       ELSE /\ VisibilityEffect
            /\ PreloadEffect
            /\ MeasureEffect
            /\ needsRender' = (needsRender \/ stateVars' # stateVars)
            /\ hist' = [hist EXCEPT
                 !.observers = IF VisibilityDepsChanged /\ ~ActivatesDirectly /\ CreatesObserver
                                 THEN @ + 1 ELSE @,
                 !.observedAfterHit = @ \/ ( /\ hist.intersected /\ VisibilityDepsChanged
                                              /\ ~ActivatesDirectly /\ CreatesObserver ),
                 !.everLazyOff = @ \/ (VisibilityDepsChanged /\ ~r.lazyLoad),
                 !.everLazyOn = @ \/ (VisibilityDepsChanged /\ r.lazyLoad),
                 !.imgLoads = IF PreloadDepsChanged /\ PreloadGuard
                                THEN @ \cup { << r.gen, u >> : u \in imageUrls(r.items) }
                                ELSE @ ]
            /\ UNCHANGED << mounted, thrown >>
  /\ UNCHANGED << propVars, hostVars, r, track, frames, styleVars >>

\* The parent removes the component: every effect cleanup runs.
Unmount ==
  /\ mounted /\ ~effectsPending
  /\ mounted' = FALSE
  /\ needsRender' = FALSE
  /\ observing' = FALSE
  /\ resizeListener' = 0
  /\ UNCHANGED << propVars, hostVars, stateVars, thrown, effectsPending, r, prev,
                  track, timers, frames, preloads, insts, styleVars, hist >>


\* ---------------------------------------------------------- visibility gate
EntryLists == UNION { [1..n -> BOOLEAN] : n \in 1..MaxEntries }

\* entries.forEach: the entries that take the isIntersecting branch.
Intersecting(entries) == Cardinality({ k \in 1..Len(entries) : entries[k] })

\* The IntersectionObserver callback: per intersecting entry setIsVisible(true),
\* setTimeout(() => setShouldLoad(true), 100) and observer.disconnect().
ObserverCallback(entries) ==
  /\ observing
  /\ Intersecting(entries) > 0
  /\ isVisible' = TRUE
  /\ needsRender' = (needsRender \/ ~isVisible)
  /\ timers' = AddTimers(timers, GateTimer, Intersecting(entries))
  /\ observing' = FALSE
  /\ hist' = [hist EXCEPT !.intersected = TRUE,
                          !.gateTimers = @ + Intersecting(entries)]
  /\ UNCHANGED << propVars, hostVars, shouldLoad, imagesLoaded, mounted, thrown,
                  effectsPending, r, prev, track, frames, preloads, insts,
                  resizeListener, styleVars >>

\* A buggy delay callback: it flips the gate instead of opening it.
setShouldLoadToggle == ~shouldLoad

\* The value the delay callback passes to setShouldLoad.
setShouldLoadValue == TRUE

\* The delay timer fires: setShouldLoad(true) (ignored once unmounted).
GateTimerFire ==
  /\ GateTimer \in TimerSet
  /\ timers' = RemoveTimer(timers, GateTimer)
  /\ shouldLoad' = IF mounted THEN setShouldLoadValue ELSE shouldLoad
  /\ needsRender' = (needsRender \/ (mounted /\ shouldLoad' # shouldLoad))
  /\ hist' = [hist EXCEPT !.gateFired = @ + 1]
  /\ UNCHANGED << propVars, hostVars, isVisible, imagesLoaded, mounted, thrown,
                  effectsPending, r, prev, track, observing, frames, preloads,
                  insts, resizeListener, styleVars >>

\* ------------------------------------------------------- asset readiness
Outcomes == {"load", "error"}

\* img.onload = checkAllLoaded; img.onerror = checkAllLoaded
CountsOnlyLoads(outcome) == outcome = "load"
CallsCheckAllLoaded(outcome) == outcome \in {"load", "error"}

\* checkAllLoaded: loadedCount++ in the closure of preload run p.
checkAllLoaded(p) == [preloads[p] EXCEPT !.loadedCount = @ + 1]

\* An image of preload run p settles (load or error event).
ImageSettle(p, url, outcome) ==
  /\ p \in 1..Len(preloads)
  /\ url \in preloads[p].pending
  /\ LET fired == [preloads[p] EXCEPT !.pending = @ \ {url}]
         after == IF CallsCheckAllLoaded(outcome)
                    THEN [checkAllLoaded(p) EXCEPT !.pending = @ \ {url}]
                    ELSE fired
         all   == CallsCheckAllLoaded(outcome) /\ after.loadedCount = after.totalImages
     IN  /\ preloads' = [preloads EXCEPT ![p] = after]
         /\ imagesLoaded' = (imagesLoaded \/ (all /\ mounted))
         /\ needsRender' = (needsRender \/ (all /\ mounted /\ ~imagesLoaded))
  /\ hist' = [hist EXCEPT !.failed = @ \/ outcome = "error"]
  /\ UNCHANGED << propVars, hostVars, isVisible, shouldLoad, mounted, thrown,
                  effectsPending, r, prev, track, observing, timers, frames,
                  insts, resizeListener, styleVars >>


\* ------------------------------------------------------ loop geometry engine
\* Host layout of the track: a flex row.  A child is as wide as what it holds;
\* a track without layout (scale 0, or detached by unmount) measures 0.
HasLayout == mounted /\ viewport > 0

offsetWidth(k) ==
  IF ~HasLayout THEN 0
  ELSE viewport * ( (IF track[k].img \/ track[k].placeholder THEN LogoWidth ELSE 0)
                  + (IF track[k].span THEN TextWidth ELSE 0) )

\* Math.round on a value held in sub-pixel units: the nearest whole pixel,
\* halves rounded up.
Math_round(x) == (2 * x + Sub) \div (2 * Sub)

\* The gap the host lays out between two children, from the inline style of
\* the committed render (none where flex gaps are not supported).
LayoutGap == IF gapSupported THEN r.config.gap.used ELSE 0

\* Exact left edge of child k, in sub-pixel units.
RECURSIVE left(_)
left(k) ==
  IF k = 1 THEN 0 ELSE left(k - 1) + offsetWidth(k - 1) * Sub + LayoutGap

\* HTMLElement.offsetLeft: whole pixels.
offsetLeft(k) == IF ~HasLayout THEN 0 ELSE Math_round(left(k))

RECURSIVE SumWidths(_)
SumWidths(k) == IF k = 0 THEN 0 ELSE SumWidths(k - 1) + offsetWidth(k)

Min(a, b) == IF a < b THEN a ELSE b

\* window.getComputedStyle(container).gap: << >> stands for the empty
\* (falsy) value of a host that has no computed gap, or of a container
\* detached from the document; << g >> for "<g>px".
gapValue == IF gapSupported /\ mounted THEN << r.config.gap.used >> ELSE << >>

\* parseFloat("<g>px")
parseFloat(v) == v[1]

\* A buggy chain: the numeric gap prop is skipped.
gapPxDefaultOnly(gap) ==
  IF gapValue # << >> THEN parseFloat(gapValue) ELSE DefaultGapPx * Sub

\* gapValue ? parseFloat(gapValue) : typeof gap === "number" ? gap : 48
\* for a closure over the gap prop, in sub-pixel units.
gapPx(gap) ==
  IF gapValue # << >> THEN parseFloat(gapValue)
  ELSE IF gap.number THEN gap.used
  ELSE DefaultGapPx * Sub

\* First two tiers of calculateAndSetWidth for a closure over n items and the
\* gap prop, in sub-pixel units.
MeasuredWidth(n, gap) ==
  IF Len(track) >= n * 2
    THEN (offsetLeft(n + 1) - offsetLeft(1)) * Sub
    ELSE IF Len(track) >= n
      THEN (offsetLeft(n) + offsetWidth(n) - offsetLeft(1)) * Sub + gapPx(gap)
      ELSE 0

\* A buggy measurement: the first result is kept whatever it is.
halfTotalWidthNoFallback(n, gap) == MeasuredWidth(n, gap)

\* Final fallback: manual calculation.
halfTotalWidth(n, gap) ==
  IF MeasuredWidth(n, gap) = 0 \/ MeasuredWidth(n, gap) < SuspiciousWidth * Sub
    THEN SumWidths(Min(n, Len(track))) * Sub + gapPx(gap) * (n - 1)
    ELSE MeasuredWidth(n, gap)

\* A buggy duration: speed is left out.
ScrollDurationNoSpeed(w, c) == << w * c.duration, c.baseWidth >>

\* (halfTotalWidth / baseWidth) * duration * speed for the rounded width w,
\* as a fraction <<num, den>>.
ScrollDuration(w, c) == << w * c.duration * c.speed, c.baseWidth >>

\* A buggy publication: --scroll-duration is left as it was.
PublishWidthOnly(w, c) ==
  [ totalWidth |-> << w >>, scrollDuration |-> scrollDuration ]

\* The two setProperty calls of calculateAndSetWidth.
Publish(w, c) ==
  [ totalWidth |-> << w >>, scrollDuration |-> ScrollDuration(w, c) ]

\* if (halfTotalWidth > 0): the test made before Math.round.
Proceeds(w) == w > 0

\* A timer of kind "retry" (50 ms) or "resize" (100 ms) fires: setupAnimation().
SetupTimerFire(t) ==
  /\ t.kind \in {"retry", "resize"}
  /\ t \in TimerSet
  /\ timers' = AddTimers(RemoveTimer(timers, t), setupAnimation(t.inst), 1)
  /\ hist' = [hist EXCEPT !.polls =
       IF \A k \in 1..Len(timers') : timers'[k].kind # "retry" THEN 0
       ELSE IF setupAnimation(t.inst).kind = "retry" THEN 1 - @ ELSE @]
  /\ UNCHANGED << propVars, hostVars, stateVars, reactVars, track, observing,
                  frames, preloads, insts, resizeListener, styleVars >>

\* The settle timer fires: calculateAndSetWidth().
CalcTimerFire(t) ==
  /\ t.kind = "calc"
  /\ t \in TimerSet
  /\ timers' = RemoveTimer(timers, t)
  /\ LET n == Len(insts[t.inst].items)
         c == insts[t.inst].config
         w == halfTotalWidth(n, c.gap)
     IN  IF Len(track) # 0 /\ Proceeds(w)
           THEN /\ totalWidth' = Publish(Math_round(w), c).totalWidth
                /\ scrollDuration' = Publish(Math_round(w), c).scrollDuration
                /\ frames' = frames + 1
                /\ hist' = [hist EXCEPT !.published = << c >>]
           ELSE UNCHANGED << totalWidth, scrollDuration, frames, hist >>
  /\ UNCHANGED << propVars, hostVars, stateVars, reactVars, track, observing,
                  preloads, insts, resizeListener, ready >>

\* requestAnimationFrame callback: container.classList.add("infinite-slider-ready")
FrameFire ==
  /\ frames > 0
  /\ frames' = frames - 1
  /\ ready' = TRUE
  /\ UNCHANGED << propVars, hostVars, stateVars, reactVars, track, observing,
                  timers, preloads, insts, resizeListener, totalWidth,
                  scrollDuration, hist >>

\* A buggy handleResize: the class is removed, no re-measurement is scheduled.
ResizeNoRemeasure(v) ==
  /\ hasWindow /\ hist.env > 0
  /\ viewport' = v
  /\ hist' = [hist EXCEPT !.env = @ - 1,
                          !.resizes = IF resizeListener # 0 THEN @ + 1 ELSE @]
  /\ IF resizeListener # 0
       THEN /\ ready' = FALSE
            /\ timers' = timers
       ELSE UNCHANGED << ready, timers >>
  /\ UNCHANGED << propVars, hasWindow, gapSupported, stateVars, reactVars, track, observing,
                  frames, preloads, insts, resizeListener, totalWidth,
                  scrollDuration >>

\* The window is resized to scale v; handleResize runs if it is registered.
Resize(v) ==
  /\ hasWindow /\ hist.env > 0
  /\ viewport' = v
  /\ hist' = [hist EXCEPT !.env = @ - 1,
                          !.resizes = IF resizeListener # 0 THEN @ + 1 ELSE @]
  /\ IF resizeListener # 0
       THEN /\ ready' = FALSE
            /\ timers' = AddTimers(timers, [kind |-> "resize", inst |-> resizeListener], 1)
       ELSE UNCHANGED << ready, timers >>
  /\ UNCHANGED << propVars, hasWindow, gapSupported, stateVars, reactVars, track, observing,
                  frames, preloads, insts, resizeListener, totalWidth,
                  scrollDuration >>

\* ------------------------------------------------------------ specification

Next ==
  \/ \E its \in ItemSequences : SetItems(its)
  \/ \E b \in BOOLEAN : SetLazyLoad(b)
  \/ \E m \in RootMargins : SetRootMargin(m)
  \/ Render
  \/ FlushEffects
  \/ Unmount
  \/ \E entries \in EntryLists : ObserverCallback(entries)
  \/ GateTimerFire
  \/ \E p \in 1..Len(preloads), u \in Urls, o \in Outcomes : ImageSettle(p, u, o)
  \/ \E t \in TimerSet : SetupTimerFire(t)
  \/ \E t \in TimerSet : CalcTimerFire(t)
  \/ FrameFire
  \/ \E v \in 0..MaxScale : Resize(v)

Spec == Init /\ [][Next]_vars


\* Mount, gate and clicks only, over every items sequence of the pool: the
\* specification of the claims about the rendered buffer.
InitBuffer == InitWith(AllSequences)

NextBuffer ==
  \/ Render
  \/ FlushEffects
  \/ \E k \in 1..Len(track) : Click(k)
  \/ \E entries \in EntryLists : ObserverCallback(entries)
  \/ GateTimerFire

SpecBuffer == InitBuffer /\ [][NextBuffer]_vars

\* The loop geometry engine in a browser with lazy gating off: every
\* configuration of duration, speed and gap, hosts with and without computed
\* flex gaps, and up to MaxResizes events: resizes and at most one new items
\* value (enough for a measurement closure to outlive its sequence).
InitGeometry ==
  /\ items \in GeometrySequences
  /\ gen = 1
  /\ lazyLoad = FALSE
  /\ rootMargin = "50px"
  /\ pauseOnHover = TRUE
  /\ itemClassName = ""
  /\ config \in Configs
  /\ hasWindow = TRUE
  /\ viewport \in 0..MaxScale
  /\ gapSupported \in BOOLEAN
  /\ hist = [InitHist EXCEPT !.env = MaxResizes]
  /\ InitComponent

NextGeometry ==
  \/ \E its \in GeometrySequences : gen = 1 /\ SetItems(its)
  \/ Render
  \/ FlushEffects
  \/ \E p \in 1..Len(preloads), u \in Urls, o \in Outcomes : ImageSettle(p, u, o)
  \/ \E t \in TimerSet : SetupTimerFire(t)
  \/ \E t \in TimerSet : CalcTimerFire(t)
  \/ FrameFire
  \/ \E v \in 0..MaxScale : Resize(v)

SpecGeometry == InitGeometry /\ [][NextGeometry]_vars

\* React and the host run what is pending: a scheduled render, committed
\* effects, due timers and frames, and every started image load settles.
Fairness ==
  /\ WF_vars(Render)
  /\ WF_vars(FlushEffects)
  /\ WF_vars(GateTimerFire)
  /\ WF_vars(\E p \in 1..Len(preloads), u \in Urls, o \in Outcomes : ImageSettle(p, u, o))
  /\ WF_vars(\E t \in TimerSet : SetupTimerFire(t))
  /\ WF_vars(\E t \in TimerSet : CalcTimerFire(t))
  /\ WF_vars(FrameFire)

FairSpec == Init /\ [][Next]_vars /\ Fairness
FairSpecGeometry == InitGeometry /\ [][NextGeometry]_vars /\ Fairness

\* The component under prop changes after mount, in a browser with lazy
\* gating off and the default configuration at mount: up to MaxResizes events,
\* each a resize, a new items value, new duration / speed / gap values, or a
\* new pauseOnHover or itemClassName value.
InitProps ==
  /\ items \in GeometrySequences
  /\ gen = 1
  /\ lazyLoad = FALSE
  /\ rootMargin = "50px"
  /\ pauseOnHover = TRUE
  /\ itemClassName = ""
  /\ config = DefaultConfig
  /\ hasWindow = TRUE
  /\ viewport \in 0..MaxScale
  /\ gapSupported = TRUE
  /\ hist = [InitHist EXCEPT !.env = MaxResizes]
  /\ InitComponent

NextProps ==
  \/ \E its \in GeometrySequences : SetItems(its)
  \/ \E c \in Configs : SetConfig(c)
  \/ \E b \in BOOLEAN : SetPauseOnHover(b)
  \/ \E c \in {"", "slide"} : SetItemClassName(c)
  \/ Render
  \/ FlushEffects
  \/ \E p \in 1..Len(preloads), u \in Urls, o \in Outcomes : ImageSettle(p, u, o)
  \/ \E t \in TimerSet : SetupTimerFire(t)
  \/ \E t \in TimerSet : CalcTimerFire(t)
  \/ FrameFire
  \/ \E v \in 0..MaxScale : Resize(v)

SpecProps == InitProps /\ [][NextProps]_vars
FairSpecProps == InitProps /\ [][NextProps]_vars /\ Fairness


\* ------------------------------------------------------------- properties
Rendered == r # NoRender
EffectsRan == prev # NoRender

\* Every distinct image URL of sequence its, generation g, has fired load or
\* error on an img element created for that generation (or there is none).
Settled(g, its) ==
  \/ imageUrls(its) = {}
  \/ \E p \in 1..Len(preloads) : preloads[p].gen = g /\ preloads[p].pending = {}

\* C1: when a sequence is rejected (the validation effect throws), nothing of
\* that sequence has been rendered before: its doubled buffer was not
\* committed, no image load was started for it, and on a first mount no
\* intersection observer was installed.
C1_RejectsBeforeRendering ==
  thrown =>
    /\ r.gen \notin hist.renderedGens
    /\ \A u \in Urls : << r.gen, u >> \notin hist.imgLoads
    /\ (r.gen = 1 => hist.observers = 0)

\* C2: in every committed render the track holds 2n children and child k
\* (0-based) renders item S[k mod n] of the rendered sequence S, whatever the
\* gate and readiness state.
C2_BufferIdentity ==
  (mounted /\ Rendered) =>
    /\ Len(track) = 2 * Len(r.items)
    /\ \A k \in 0..(2 * Len(r.items) - 1) :
         track[k + 1].item = r.items[(k % Len(r.items)) + 1]

C2_Witness ==
  /\ mounted /\ Rendered /\ r.shouldLoad
  /\ Len(r.items) = 2 /\ r.items[1] # r.items[2]
  /\ Len(track) = 4

\* C3 (as claimed): all 2n keys of the rendered buffer are pairwise distinct,
\* for items with an explicit id as for items with the fallback key.
C3_AllKeysDistinct ==
  (mounted /\ Rendered) =>
    \A j, k \in 1..Len(track) : j # k => track[j].key # track[k].key

\* C3 (amended): the children of items without id carry the fallback key
\* "<position>-<copy>", pairwise distinct among themselves, the two parallel
\* children differing in the copy index; a child of an item with an explicit
\* id carries that id as its key in both copies.
C3_FallbackKeysDistinct ==
  (mounted /\ Rendered) =>
    LET n == Len(r.items) IN
    /\ \A j, k \in 1..Len(track) :
         (j # k /\ track[j].item.id = "" /\ track[k].item.id = "")
           => track[j].key # track[k].key
    /\ \A j \in 1..n :
         IF r.items[j].id = ""
           THEN /\ track[j].key = ToString(j - 1) \o "-0"
                /\ track[j + n].key = ToString(j - 1) \o "-1"
           ELSE /\ track[j].key = r.items[j].id
                /\ track[j + n].key = r.items[j].id

C3_Witness ==
  /\ mounted /\ Rendered /\ Len(r.items) = 2
  /\ r.items[1].id = "" /\ r.items[2].id # ""
  /\ track[1].key = "0-0" /\ track[3].key = "0-1" /\ track[2].key = track[4].key

\* C4: readiness is per sequence generation: when the effects of a new items
\* value with at least one image run, readiness is false for it, and
\* readiness never reverts within a generation.
C4_ReadinessPerGeneration ==
  [][ /\ (prev'.gen # prev.gen /\ mounted' /\ imageUrls(prev'.items) # {})
          => ~imagesLoaded'
      /\ (imagesLoaded /\ gen' = gen) => imagesLoaded' ]_vars

\* C5: once the effects of the current sequence have run, readiness is never
\* true while one of its distinct image URLs is still pending.
C5_ReadyOnlyWhenSettled ==
  (mounted /\ imagesLoaded /\ prev.gen = gen) => Settled(gen, items)

\* The layout yields a positive distance for the rendered sequence.
PositiveLayout == Len(track) # 0 /\ halfTotalWidth(Len(r.items), r.config.gap) > 0

\* C6: in a browser, once the gate is Active and every started image load
\* fires load or error (any mix), readiness becomes true while the component
\* stays mounted; and if from some point on the layout yields a positive
\* distance, the animation is marked ready.
C6_FailedLoadsDoNotStall ==
  /\ (shouldLoad /\ hasWindow) ~> (imagesLoaded \/ ~mounted)
  /\ <>[](shouldLoad /\ hasWindow /\ mounted /\ PositiveLayout) => <>ready

C6_Witness ==
  /\ mounted /\ shouldLoad /\ imagesLoaded /\ ready /\ hist.failed
  /\ \E p \in 1..Len(preloads) : preloads[p].gen = gen /\ preloads[p].totalImages = 2

\* C7: an image load (preload img or rendered <img>) starts only while
\* shouldLoad is true, and while lazy gating has always been on shouldLoad is
\* true only after an intersection was reported and a delay timer fired.
C7_GateBeforeLoading ==
  /\ [][ hist'.imgLoads # hist.imgLoads => shouldLoad ]_vars
  /\ []( (shouldLoad /\ ~hist.everLazyOff)
           => (hist.intersected /\ hist.gateFired >= 1) )

C7_Witness ==
  /\ hist.imgLoads # {} /\ ~hist.everLazyOff
  /\ hist.intersected /\ hist.gateFired >= 1 /\ preloads # << >>

\* C8: calculateAndSetWidth never measures the buffer of a sequence
\* generation before every distinct image of that generation has settled.
C8_MeasureAfterSettled ==
  [][ (\E t \in TimerSet : CalcTimerFire(t)) => Settled(r.gen, r.items) ]_vars

\* C9: with lazy gating on throughout, exactly one delay timer is scheduled,
\* shouldLoad is set once, and no observer is installed after the first
\* intersection.
C9_OneShotGate ==
  ~hist.everLazyOff =>
    /\ hist.gateTimers <= 1
    /\ hist.gateFired <= 1
    /\ ~hist.observedAfterHit

\* C10 (as claimed): without a window the gate is Active, with no
\* subscription, as soon as the visibility effect has run.
C10_NoWindowActive ==
  (~hasWindow /\ EffectsRan /\ mounted) => (shouldLoad /\ ~observing)

\* C10 (amended): without a window no observer is ever created and no delay
\* timer scheduled, and the gate is Active exactly when the visibility effect
\* has run with lazyLoad false; with lazy gating on it stays inactive.
C10_NoWindowGate ==
  ~hasWindow =>
    /\ ~observing /\ hist.observers = 0 /\ hist.gateTimers = 0
    /\ shouldLoad <=> hist.everLazyOff

C10_Witness ==
  ~hasWindow /\ EffectsRan /\ mounted /\ r.lazyLoad /\ ~shouldLoad /\ ~needsRender

\* C11: with lazy gating disabled the gate is Active as soon as the
\* visibility effect has run with lazyLoad false (isVisible and shouldLoad are
\* both true), nothing is observing after such a run, and as long as the
\* effect never ran with lazyLoad true no IntersectionObserver was created
\* and no delay timer was scheduled or is pending.
C11_LazyOffActive ==
  /\ hist.everLazyOff => (isVisible /\ shouldLoad)
  /\ (EffectsRan /\ ~prev.lazyLoad) => ~observing
  /\ ~hist.everLazyOn =>
       /\ hist.observers = 0 /\ hist.gateTimers = 0
       /\ ~observing /\ GateTimer \notin PendingTimers

C11_Witness ==
  /\ mounted /\ hist.everLazyOff /\ ~hist.everLazyOn
  /\ isVisible /\ shouldLoad /\ imagesLoaded /\ hist.observers = 0

\* Equality of two fractions <<num, den>>.
RatEq(a, b) == a[1] * b[2] = b[1] * a[2]

\* The configuration closed over by the measurement that published last.
PublishedConfig == hist.published[1]

\* C12: the container has either neither --total-width nor --scroll-duration
\* or both, and when both are present they come from one measurement:
\* --scroll-duration is --total-width / baseWidth * duration * speed for the
\* configuration of the measurement that published last.
C12_AtomicParameters ==
  /\ (totalWidth = NoValue) <=> (scrollDuration = NoValue)
  /\ totalWidth # NoValue =>
       /\ hist.published # << >>
       /\ RatEq(scrollDuration,
                << totalWidth[1] * PublishedConfig.duration * PublishedConfig.speed,
                   PublishedConfig.baseWidth >>)

C12_Witness ==
  /\ totalWidth # NoValue /\ scrollDuration # NoValue
  /\ hist.resizes >= 1 /\ Len(insts) >= 2
  /\ PublishedConfig.duration # duration /\ PublishedConfig.speed # speed

\* C13: the distance is rounded first and published only if the rounded
\* result is positive: every published --total-width is a whole number of
\* pixels >= 1, and a measurement step publishes and requests the ready frame
\* exactly when its rounded distance is positive.
C13_PublishesPositiveRounded ==
  /\ [](totalWidth # NoValue => totalWidth[1] >= 1)
  /\ [][ \A t \in TimerSet :
           (CalcTimerFire(t) /\ Len(track) # 0) =>
             LET w == halfTotalWidth(Len(insts[t.inst].items), insts[t.inst].config.gap)
             IN  (frames' = frames + 1) <=> (Math_round(w) > 0) ]_vars

ResizePending == \E t \in PendingTimers : t.kind = "resize"

\* C15: while the component is mounted and the container is marked ready,
\* no re-measurement asked for by a handled resize is still pending, and the
\* published --total-width is the distance the current layout measures.
C15_ReadyImpliesCurrent ==
  (mounted /\ ready) =>
    /\ ~ResizePending
    /\ totalWidth = << Math_round(halfTotalWidth(Len(r.items), r.config.gap)) >>

\* Nothing is pending: no render, no effects, no timer, no animation frame.
Quiescent ==
  /\ mounted /\ ~needsRender /\ ~effectsPending
  /\ timers = << >> /\ frames = 0

\* The measurement effect has run once, for the mounted sequence, and its
\* handleResize has handled at least one resize event.
ResizedOnly == gen = 1 /\ Len(insts) = 1 /\ resizeListener = 1 /\ hist.resizes >= 1

C17_ReleasedOnTeardown ==
  /\ [](~mounted =>
         /\ ~observing /\ resizeListener = 0
         /\ timers = << >> /\ frames = 0)
  /\ [][ ~mounted => (stateVars' = stateVars /\ styleVars' = styleVars) ]_vars

\* setupAnimation has a zero-children retry scheduled.
RetryPending == \E t \in PendingTimers : t.kind = "retry"

\* C18: the zero-children polling is bounded: in every run, for every
\* accepted sequence, from some point on setupAnimation has no retry
\* scheduled any more.
C18_BoundedRetry == <>[](~RetryPending)

\* C19: a click on any of the 2n rendered children, of either copy, calls
\* onItemClick(item, index) with 0 <= index < n, index the position of the
\* child within its copy (never the position in the doubled buffer) and item
\* the element S[index] of the rendered sequence S.
C19_ClickIndex ==
  hist.click # << >> =>
    LET c == hist.click[1]
        n == Len(c.rendered)
    IN  /\ c.index \in 0..(n - 1)
        /\ c.index = (c.child - 1) % n
        /\ c.item = c.rendered[c.index + 1]

C19_Witness ==
  /\ hist.click # << >>
  /\ Len(hist.click[1].rendered) = 2
  /\ hist.click[1].rendered[1] # hist.click[1].rendered[2]
  /\ hist.click[1].child = 4 /\ hist.click[1].index = 1

\* The effective gap of the claim for a closure over the gap prop, in
\* sub-pixel units: the live computed gap when there is one, otherwise a
\* numeric gap prop as pixels, otherwise 48 px.
EffectiveGap(gap) ==
  CASE gapSupported /\ mounted -> r.config.gap.used
    [] ~(gapSupported /\ mounted) /\ gap.number -> gap.used
    [] OTHER -> 48 * Sub

\* C20: a measurement that publishes from the secondary tier (at least one
\* copy but fewer than two of the closure's n items in the track, result not
\* below 100 px) publishes right edge of child n - left edge of child 1 +
\* effective gap, and one that publishes from a track without layout (the
\* tertiary tier, all widths 0) publishes effective gap * (n - 1), both
\* rounded; the effective gap is the live computed gap when available,
\* otherwise the numeric gap prop, otherwise 48 - so with no computed gap
\* and gap 24 the tertiary tier uses 24.
C20_GapFallbackChain ==
  [][ \A t \in TimerSet :
        (CalcTimerFire(t) /\ frames' = frames + 1) =>
          LET n   == Len(insts[t.inst].items)
              gap == insts[t.inst].config.gap
              span == (offsetLeft(n) + offsetWidth(n) - offsetLeft(1)) * Sub
          IN  /\ ~HasLayout =>
                   totalWidth' = << Math_round(EffectiveGap(gap) * (n - 1)) >>
              /\ ( /\ HasLayout /\ n <= Len(track) /\ Len(track) < 2 * n
                    /\ span + EffectiveGap(gap) >= SuspiciousWidth * Sub )
                   => totalWidth' = << Math_round(span + EffectiveGap(gap)) >>
              /\ (~(gapSupported /\ mounted) /\ gap = Gap24 /\ ~HasLayout /\ n = 2)
                   => totalWidth' = << 24 >> ]_vars

\* The tertiary tier has published with no computed gap and gap = 24.
C20_Witness ==
  /\ ~gapSupported /\ viewport = 0 /\ totalWidth = << 24 >>
  /\ hist.published # << >> /\ PublishedConfig.gap = Gap24
  /\ gen = 1 /\ Len(items) = 2

\* C21: a measurement takes the primary result (left edge of child n+1 minus
\* left edge of child 1) when the track has at least 2n children, the
\* secondary result (right edge of child n minus left edge of child 1 plus
\* the effective gap) only when it has at least n but fewer than 2n, and
\* replaces that result by the tertiary value (widths of the first n children
\* plus effective gap * (n - 1)) exactly when it is zero or below 100 px; it
\* publishes the rounded outcome, so a primary result >= 100 px is published
\* unchanged.
C21_TierSelection ==
  [][ \A t \in TimerSet :
        (CalcTimerFire(t) /\ frames' = frames + 1) =>
          LET n    == Len(insts[t.inst].items)
              g    == EffectiveGap(insts[t.inst].config.gap)
              two  == Len(track) >= 2 * n
              one  == Len(track) >= n /\ ~two
              primary   == (offsetLeft(n + 1) - offsetLeft(1)) * Sub
              secondary == (offsetLeft(n) + offsetWidth(n) - offsetLeft(1)) * Sub + g
              tertiary  == SumWidths(n) * Sub + g * (n - 1)
              first == IF two THEN primary ELSE IF one THEN secondary ELSE 0
              small == first = 0 \/ first < 100 * Sub
          IN  /\ totalWidth' = << Math_round(IF small THEN tertiary ELSE first) >>
              /\ (two /\ primary >= 100 * Sub)
                   => totalWidth'[1] * Sub = primary ]_vars

\* One text item of 50 px with the 48 px gap: the primary result 98 is below
\* 100 and the tertiary value 50 has been published.
C21_Witness ==
  /\ gen = 1 /\ items = << TextB >> /\ viewport = 1 /\ gapSupported
  /\ config.gap = GapRem /\ Len(track) = 2
  /\ totalWidth = << TextWidth >> /\ hist.resizes = 0

\* The published parameters are what some measurement closure computes from
\* the layout as it is now.
MeasuredNow ==
  \E k \in 1..Len(insts) :
    LET w == Math_round(halfTotalWidth(Len(insts[k].items), insts[k].config.gap))
    IN  /\ totalWidth = << w >>
        /\ RatEq(scrollDuration, ScrollDuration(w, insts[k].config))

\* C22: a handled resize event removes the ready class and queues its
\* re-run in the same step; the re-run is setupAnimation, which with children
\* present queues calculateAndSetWidth behind the settle delay; and in every
\* run, prop changes included, whose resizes have ended on a layout that
\* measures a positive distance, from some point on the container is ready
\* again, for good, with parameters measured from that layout.
C22_ResizeRecovery ==
  /\ [][ hist.resizes' # hist.resizes =>
           /\ ~ready'
           /\ timers' = Append(timers, [kind |-> "resize", inst |-> resizeListener]) ]_vars
  /\ [][ \A t \in TimerSet :
           (SetupTimerFire(t) /\ t.kind = "resize" /\ Len(track) # 0) =>
             timers' = Append(RemoveTimer(timers, t), [kind |-> "calc", inst |-> t.inst]) ]_vars
  /\ (<>[](hist.resizes >= 1 /\ PositiveLayout)) => <>[](ready /\ MeasuredNow)

\* A commit of a re-render in which no dependency of the measurement effect
\* differs from the previous commit.
CosmeticRender ==
  /\ ~effectsPending /\ effectsPending'
  /\ r # NoRender
  /\ r'.gen = r.gen /\ r'.config = r.config
  /\ r'.shouldLoad = r.shouldLoad /\ r'.imagesLoaded = r.imagesLoaded

\* C25: once the container is marked ready, only a handled resize event
\* unmarks it, and the commit of a re-render that changes no dependency of
\* the measurement effect (a new pauseOnHover or itemClassName value) leaves
\* the ready flag, --total-width and --scroll-duration as they were.
C25_ReadyFrame ==
  /\ [][ (ready /\ ~ready') => hist.resizes' = hist.resizes + 1 ]_vars
  /\ [][ CosmeticRender => styleVars' = styleVars ]_vars

\* C24: once the measurement effect has run again for new items, duration,
\* speed, baseWidth or gap values and no render, effect, timer or frame is
\* pending, the published --total-width and --scroll-duration are those the
\* latest items and configuration give for the layout (when it measures a
\* positive distance): no callback of an earlier run of the effect has
\* overwritten them.
C24_LatestConfigurationWins ==
  (Quiescent /\ Len(insts) >= 2 /\ resizeListener = Len(insts) /\ PositiveLayout) =>
    LET w == Math_round(halfTotalWidth(Len(r.items), r.config.gap))
    IN  /\ totalWidth = << w >>
        /\ RatEq(scrollDuration, ScrollDuration(w, r.config))

\* C23: no step takes shouldLoad or isVisible from true back to false:
\* neither an observer callback, a timer or an effect run, nor a commit after
\* lazyLoad, rootMargin or items changed, nor the unmount.
C23_GateMonotonic ==
  [][ (shouldLoad => shouldLoad') /\ (isVisible => isVisible') ]_vars

\* The gate was opened through the observer and its delay timer, then
\* lazyLoad or rootMargin changed and the visibility effect ran again: it is
\* observing anew with the gate still Active.
C23_Witness ==
  /\ mounted /\ shouldLoad /\ isVisible /\ hist.gateFired >= 1
  /\ hist.observers >= 2 /\ observing /\ EffectsRan /\ prev.lazyLoad

====
